---- MODULE Spec2Model ----
(***************************************************************************)
(* Model of hotspots.py: the tile locator (GeoPoint.zoom), the placemark   *)
(* fragmenter (Placemark.move / get_parts / create), the per-tile list     *)
(* (Tile.add / Tile.sort) and the driver (HotspotsManager.generate_tiles). *)
(* Coordinates are pixels, priorities are counted in units of 1/10000.     *)
(***************************************************************************)
EXTENDS Integers, Sequences, FiniteSets

VARIABLES
    x, y, box, parts, pcParts,          \* Placemark.get_parts: arguments, returned list, position
    geo, zscale, zoomed, pcZoom,        \* GeoPoint.zoom: the point, the scale, the result
    placemark_list, nextId, pcTile,     \* one Tile: its list, the next placemark to add, last call
    iterable, it, scale_arg, scale_range, scale, tiles, todo, emitted, produced, pc
                                        \* HotspotsManager.generate_tiles

partsVars == <<x, y, box, parts, pcParts>>
zoomVars  == <<geo, zscale, zoomed, pcZoom>>
tileVars  == <<placemark_list, nextId, pcTile>>
mgrVars   == <<iterable, it, scale_arg, scale_range, scale, tiles, todo, emitted, produced, pc>>
vars      == <<partsVars, zoomVars, tileVars, mgrVars>>

----------------------------------------------------------------------------
\* Bounds of the model
MaxTiles == 2       \* box coordinates reach this many tile edges to the right/bottom
MaxPlacemarks == 3  \* placemarks added to one tile
MaxTop == 2         \* box tops of those placemarks range over -MaxTop..MaxTop
Grid == 24          \* resolution of the Mercator plane: positions are k/Grid of the equator
Over == 2           \* positions this many grid steps outside the map are tried too
MaxScale == 2       \* zoom levels tried by GeoPoint.zoom
MaxObjs == 2        \* objects in the input iterable
MaxZoom == 1        \* zoom levels 0..MaxZoom in generate_tiles

\* Tile.size
Size == 256

----------------------------------------------------------------------------
\* Python's divmod for a positive divisor: floor division, remainder in 0..b-1
divmod_trunc(a, b) ==
    IF a >= 0 THEN <<a \div b, a % b>> ELSE <<-((-a) \div b), -((-a) % b)>>

divmod(a, b) ==
    <<a \div b, a % b>>

SeqToSet(s) == {s[i] : i \in DOMAIN s}

----------------------------------------------------------------------------
\* Placemark.move: apply offset = <<top, left>> and renormalise to a tile
move(mx, my, top, left, offset) ==
    LET dx == divmod(left + offset[2], Size)
        dy == divmod(top + offset[1], Size)
    IN  <<mx + dx[1], my + dy[1], dy[2], dx[2]>>

\* the three lambdas of offset_tuple
rule_diagonal(top, left, width, height) ==
    <<left - width, top - height, left, top>>

rule_vertical_shifted(top, left, width, height) ==
    <<left, top, left + width, top + height>>

rule_vertical(top, left, width, height) ==
    <<left - width, top, left, top + height>>

rule_horizontal(top, left, width, height) ==
    <<left, top - height, left + width, top>>

func(i, top, left, width, height) ==
    CASE i = 1 -> rule_diagonal(top, left, width, height)
      [] i = 2 -> rule_vertical(top, left, width, height)
      [] i = 3 -> rule_horizontal(top, left, width, height)

offset_tuple(width, height) ==
    << <<height, width>>, <<0, width>>, <<height, 0>> >>

\* the condition of line 228: a neighbour other than the origin, not yet in plmrk_dct
accept_any_tile(key, origin, dct) ==
    \A k \in DOMAIN dct : dct[k][1] # key

accept_again(key, origin, dct) ==
    key # origin

accept(key, origin, dct) ==
    key # origin /\ \A k \in DOMAIN dct : dct[k][1] # key

\* the loop of get_parts; dct is plmrk_dct as the sequence of its items in insertion order
RECURSIVE parts_loop(_, _, _, _, _)
parts_loop(gx, gy, b, i, dct) ==
    IF i > 3 THEN dct
    ELSE LET width  == b[3] - b[1]
             height == b[4] - b[2]
             m      == move(gx, gy, b[2], b[1], offset_tuple(width, height)[i])
             key    == <<m[1], m[2]>>
         IN  IF accept(key, <<gx, gy>>, dct)
             THEN parts_loop(gx, gy, b, i + 1,
                             Append(dct, <<key, func(i, m[3], m[4], width, height)>>))
             ELSE parts_loop(gx, gy, b, i + 1, dct)

get_parts(gx, gy, b) == parts_loop(gx, gy, b, 1, <<>>)

\* the orders in which dict.items() may list the entries
Orders(s) ==
    {t \in [DOMAIN s -> SeqToSet(s)] : \A e \in SeqToSet(s) : \E k \in DOMAIN t : t[k] = e}

----------------------------------------------------------------------------
\* Harness of get_parts: boxes with corners on and around the tile edges
Coords == {k * Size + d : k \in (-1)..MaxTiles, d \in {-8, 0, 4}}
Origins == {<<0, 0>>, <<21900, 10101>>}

IdleParts ==
    /\ x = 0 /\ y = 0 /\ box = <<0, 0, 0, 0>> /\ parts = <<>> /\ pcParts = "idle"

InitPartsVars ==
    /\ \E o \in Origins : x = o[1] /\ y = o[2]
    /\ box \in Coords \X Coords \X Coords \X Coords
    /\ parts = <<>>
    /\ pcParts = "call"

GetParts ==
    /\ pcParts = "call"
    /\ parts' \in Orders(get_parts(x, y, box))
    /\ pcParts' = "returned"
    /\ UNCHANGED <<x, y, box>>
    /\ UNCHANGED <<zoomVars, tileVars, mgrVars>>

NextParts == GetParts

----------------------------------------------------------------------------
\* Python 2 round() of the quotient num/den (den > 0): to nearest, halves away from zero
round_floor(num, den) ==
    num \div den

round(num, den) ==
    IF num >= 0 THEN (2 * num + den) \div (2 * den)
    ELSE -((2 * (-num) + den) \div (2 * den))

RECURSIVE pow2(_)
pow2(n) == IF n = 0 THEN 1 ELSE 2 * pow2(n - 1)

\* GeoPoint._mercator_to_pixel.  A point is <<u, v>>: (b + lngM) = equator * u / Grid and
\* (b - latM) = equator * v / Grid, so that (b + lngM) * a = u * worldSize / Grid.
mercator_to_pixel(g, s) ==
    LET worldSize == Size * pow2(s)
    IN  <<round(g[1] * worldSize, Grid), round(g[2] * worldSize, Grid)>>

\* GeoPoint.zoom: <<x, y, top, left>>
zoom(g, s) ==
    LET p  == mercator_to_pixel(g, s)
        dx == divmod(p[1], Size)
        dy == divmod(p[2], Size)
    IN  <<dx[1], dy[1], dy[2], dx[2]>>

IdleZoom ==
    /\ geo = <<0, 0>> /\ zscale = 0 /\ zoomed = <<>> /\ pcZoom = "idle"

InitZoomVars ==
    /\ geo \in ((-Over)..(Grid + Over)) \X ((-Over)..(Grid + Over))
    /\ zscale \in 0..MaxScale
    /\ zoomed = <<>>
    /\ pcZoom = "call"

Zoom ==
    /\ pcZoom = "call"
    /\ zoomed' = zoom(geo, zscale)
    /\ pcZoom' = "returned"
    /\ UNCHANGED <<geo, zscale>>
    /\ UNCHANGED <<partsVars, tileVars, mgrVars>>

NextZoom == Zoom

----------------------------------------------------------------------------
\* Tile.sort, first half: list.sort(key=lambda p: p.box[1]) is a stable sort.
\* insert puts p behind every element whose key is not larger.
RECURSIVE insert_before_equal(_, _)
insert_before_equal(s, p) ==
    IF s = <<>> THEN <<p>>
    ELSE IF p.box[2] <= Head(s).box[2] THEN <<p>> \o s
         ELSE <<Head(s)>> \o insert_before_equal(Tail(s), p)

RECURSIVE insert(_, _)
insert(s, p) ==
    IF s = <<>> THEN <<p>>
    ELSE IF p.box[2] < Head(s).box[2] THEN <<p>> \o s
         ELSE <<Head(s)>> \o insert(Tail(s), p)

RECURSIVE sorted_by_top(_)
sorted_by_top(s) ==
    IF s = <<>> THEN <<>>
    ELSE insert(sorted_by_top(SubSeq(s, 1, Len(s) - 1)), s[Len(s)])

\* round(1.0/count, 4) in units of 1/10000
Unit == 10000
priority_of(count) == round(Unit, count)

\* Tile.sort, second half: count runs from len down to 1 along the list
priorities_descending(s) ==
    [i \in DOMAIN s |-> [s[i] EXCEPT !.priority = priority_of(i)]]

priorities(s) ==
    [i \in DOMAIN s |-> [s[i] EXCEPT !.priority = priority_of(Len(s) - i + 1)]]

sort(s) == priorities(sorted_by_top(s))

\* One tile.  A placemark is [id, box, priority]; id stands for its lng, lat, img and data.
IdleTile ==
    /\ placemark_list = <<>> /\ nextId = 0 /\ pcTile = "idle"

InitTileVars ==
    /\ placemark_list = <<>>
    /\ nextId = 1
    /\ pcTile = "new"

Add ==
    /\ pcTile \in {"new", "add", "sort"}
    /\ nextId <= MaxPlacemarks
    /\ \E top \in (-MaxTop)..MaxTop :
         placemark_list' = Append(placemark_list,
             [id |-> nextId, box |-> <<0, top, 8, top + 8>>, priority |-> Unit])
    /\ nextId' = nextId + 1
    /\ pcTile' = "add"
    /\ UNCHANGED <<partsVars, zoomVars, mgrVars>>

Sort ==
    /\ pcTile \in {"new", "add", "sort"}
    /\ placemark_list' = sort(placemark_list)
    /\ pcTile' = "sort"
    /\ UNCHANGED nextId
    /\ UNCHANGED <<partsVars, zoomVars, mgrVars>>

NextTile == Add \/ Sort

----------------------------------------------------------------------------
\* Input objects: what get_lng/get_lat (as a point of the Mercator grid), get_offset and
\* get_img (as the image size <<width, height>>) answer for them.
Objects ==
    { [geo |-> <<Grid \div 2, Grid \div 2>>, offset |-> <<-4, -4>>, img |-> <<12, 12>>],
      [geo |-> <<Grid \div 2, Grid \div 2>>, offset |-> <<0, 0>>,   img |-> <<8, 8>>],
      [geo |-> <<Grid \div 4, Grid \div 2>>, offset |-> <<0, 0>>,   img |-> <<8, 8>>] }

\* Placemark.__init__ by way of Placemark.create: the origin placemark, then those of
\* get_parts.  ref stands for the object's lng, lat, img and data; scale records the zoom
\* the placemark was computed for.
placemark(part, ref, s) ==
    [tile_num |-> part[1], box |-> part[2], priority |-> Unit, obj |-> ref, scale |-> s]

create_origin(g, s, offset, img) ==
    LET z == zoom(g, s)
        m == move(z[1], z[2], z[3], z[4], offset)
    IN  <<<<m[1], m[2]>>, <<m[4], m[3], m[4] + img[1], m[3] + img[2]>>>>

create(g, s, offset, img) ==
    LET o == create_origin(g, s, offset, img)
    IN  <<o>> \o get_parts(o[1][1], o[1][2], o[2])

\* HotspotsManager.get_placemark
get_placemark(o, ref, s) ==
    LET l == create(o.geo, s, o.offset, o.img)
    IN  [i \in DOMAIN l |-> placemark(l[i], ref, s)]

\* lines 288-290: look the tile up, create it when missing, add the placemark
tile_add(ts, p, s) ==
    IF p.tile_num \in DOMAIN ts
    THEN [ts EXCEPT ![p.tile_num].placemark_list = Append(@, p)]
    ELSE [t \in DOMAIN ts \cup {p.tile_num} |->
            IF t \in DOMAIN ts THEN ts[t] ELSE [scale |-> s, placemark_list |-> <<p>>]]

RECURSIVE add_all(_, _, _)
add_all(ts, l, s) ==
    IF l = <<>> THEN ts ELSE add_all(tile_add(ts, Head(l), s), Tail(l), s)

\* line 282: xrange(scale[0], scale[1] + 1) for a pair, (scale,) for a number
range_of(arg) ==
    IF arg.iter
    THEN [k \in 1..(arg.hi - arg.lo + 1) |-> arg.lo + k - 1]
    ELSE <<arg.lo>>

ScaleArgs ==
    [iter : {TRUE}, lo : 0..MaxZoom, hi : 0..MaxZoom] \cup [iter : {FALSE}, lo : 0..MaxZoom, hi : {0}]

ObjSeqs == UNION {[1..n -> Objects] : n \in 0..MaxObjs}

IdleMgr ==
    /\ iterable = <<>> /\ it = 0 /\ scale_arg = 0 /\ scale_range = <<>> /\ scale = 0
    /\ tiles = <<>> /\ todo = {} /\ emitted = <<>> /\ produced = {} /\ pc = "idle"

\* iterable.objs is what the data source yields; kind "list" gives a fresh iterator to
\* every for loop, kind "iterator" is its own iterator and `it` is its position.
InitMgrVars ==
    /\ iterable \in [kind : {"list", "iterator"}, objs : ObjSeqs]
    /\ scale_arg \in ScaleArgs
    /\ it = 0 /\ scale_range = <<>> /\ scale = 0
    /\ tiles = <<>> /\ todo = {} /\ emitted = <<>> /\ produced = {}
    /\ pc = "start"

\* lines 278-282: remove_tiles and the generator of zoom levels
Start ==
    /\ pc = "start"
    /\ emitted' = <<>>
    /\ scale_range' = range_of(scale_arg)
    /\ pc' = "scales"
    /\ UNCHANGED <<iterable, it, scale_arg, scale, tiles, todo, produced>>
    /\ UNCHANGED <<partsVars, zoomVars, tileVars>>

\* lines 283-285: the next zoom level, an empty tiles dict, iter(iterable)
NextScale_keep_tiles ==
    /\ pc = "scales"
    /\ scale_range # <<>>
    /\ scale' = Head(scale_range)
    /\ scale_range' = Tail(scale_range)
    /\ tiles' = tiles
    /\ it' = IF iterable.kind = "list" THEN 0 ELSE it
    /\ pc' = "objects"
    /\ UNCHANGED <<iterable, scale_arg, todo, emitted, produced>>
    /\ UNCHANGED <<partsVars, zoomVars, tileVars>>

NextScale ==
    /\ pc = "scales"
    /\ scale_range # <<>>
    /\ scale' = Head(scale_range)
    /\ scale_range' = Tail(scale_range)
    /\ tiles' = <<>>
    /\ it' = IF iterable.kind = "list" THEN 0 ELSE it
    /\ pc' = "objects"
    /\ UNCHANGED <<iterable, scale_arg, todo, emitted, produced>>
    /\ UNCHANGED <<partsVars, zoomVars, tileVars>>

\* lines 285-290: one object, all its placemarks
ProcessObj ==
    /\ pc = "objects"
    /\ it < Len(iterable.objs)
    /\ it' = it + 1
    /\ LET l == get_placemark(iterable.objs[it + 1], it + 1, scale)
       IN  /\ \E rest \in Orders(Tail(l)) : tiles' = add_all(tiles, <<Head(l)>> \o rest, scale)
           /\ produced' = produced \cup SeqToSet(l)
    /\ UNCHANGED <<iterable, scale_arg, scale_range, scale, todo, emitted, pc>>
    /\ UNCHANGED <<partsVars, zoomVars, tileVars>>

\* line 285 exhausted, line 291: tiles.itervalues()
EndObjects ==
    /\ pc = "objects"
    /\ it = Len(iterable.objs)
    /\ todo' = DOMAIN tiles
    /\ pc' = "tiles"
    /\ UNCHANGED <<iterable, it, scale_arg, scale_range, scale, tiles, emitted, produced>>
    /\ UNCHANGED <<partsVars, zoomVars, tileVars>>

\* lines 291-295: tile.generate() sorts the tile and writes it out, in the dict's order
GenerateTile ==
    /\ pc = "tiles"
    /\ \E t \in todo :
         /\ tiles' = [tiles EXCEPT ![t].placemark_list = sort(@)]
         /\ emitted' = Append(emitted, [tile_num |-> t, scale |-> tiles[t].scale,
                                        placemark_list |-> sort(tiles[t].placemark_list)])
         /\ todo' = todo \ {t}
    /\ UNCHANGED <<iterable, it, scale_arg, scale_range, scale, produced, pc>>
    /\ UNCHANGED <<partsVars, zoomVars, tileVars>>

EndTiles ==
    /\ pc = "tiles"
    /\ todo = {}
    /\ pc' = "scales"
    /\ UNCHANGED <<iterable, it, scale_arg, scale_range, scale, tiles, todo, emitted, produced>>
    /\ UNCHANGED <<partsVars, zoomVars, tileVars>>

Finish ==
    /\ pc = "scales"
    /\ scale_range = <<>>
    /\ pc' = "done"
    /\ UNCHANGED <<iterable, it, scale_arg, scale_range, scale, tiles, todo, emitted, produced>>
    /\ UNCHANGED <<partsVars, zoomVars, tileVars>>

Next == Start \/ NextScale \/ ProcessObj \/ EndObjects \/ GenerateTile \/ EndTiles \/ Finish

InitParts == InitPartsVars /\ IdleZoom /\ IdleTile /\ IdleMgr
InitZoom  == IdleParts /\ InitZoomVars /\ IdleTile /\ IdleMgr
InitTile  == IdleParts /\ IdleZoom /\ InitTileVars /\ IdleMgr
Init      == IdleParts /\ IdleZoom /\ IdleTile /\ InitMgrVars

SpecParts == InitParts /\ [][NextParts]_vars
SpecZoom  == InitZoom /\ [][NextZoom]_vars
SpecTile  == InitTile /\ [][NextTile]_vars
Spec      == Init /\ [][Next]_vars

----------------------------------------------------------------------------
\* Properties of Placemark.get_parts (SpecParts)

Returned == pcParts = "returned"
Width  == box[3] - box[1]
Height == box[4] - box[2]
AnchorInside == 0 <= box[1] /\ box[1] < Size /\ 0 <= box[2] /\ box[2] < Size
Addresses == {parts[i][1] : i \in DOMAIN parts}

\* the box as seen from tile n
Translated(n) ==
    <<box[1] - Size * (n[1] - x), box[2] - Size * (n[2] - y),
      box[3] - Size * (n[1] - x), box[4] - Size * (n[2] - y)>>

AllTranslated == \A i \in DOMAIN parts : parts[i][2] = Translated(parts[i][1])

ThreeNeighbours ==
    /\ Len(parts) = 3
    /\ Addresses = {<<x + 1, y + 1>>, <<x + 1, y>>, <<x, y + 1>>}

DistinctNeighbours ==
    /\ \A i \in DOMAIN parts : parts[i][1] # <<x, y>>
    /\ \A i, j \in DOMAIN parts : i # j => parts[i][1] # parts[j][1]

\* C2 as stated: get_parts returns between 0 and 2 entries, each for a neighbour other
\* than the origin and other than every other returned neighbour.
C2_AtMostTwo == Returned => Len(parts) <= 2 /\ DistinctNeighbours

\* C2 amended: get_parts returns between 0 and 3 entries, each for a neighbour other
\* than the origin and other than every other returned neighbour.
C2_AtMostThree == Returned => Len(parts) <= 3 /\ DistinctNeighbours

C2_Witness ==
    /\ Returned /\ Len(parts) = 3
    /\ AnchorInside /\ Width > 0 /\ Height > 0

\* C5 as stated: a box of width 0 and height 0 yields no fragment, wherever it lies.
C5_ZeroBoxAnywhere == (Returned /\ Width = 0 /\ Height = 0) => parts = <<>>

\* C5 amended: a box of width 0 and height 0 anchored inside the tile yields no
\* fragment; anchored outside it yields one, for the tile that holds the anchor.
C5_ZeroBoxInside ==
    (Returned /\ Width = 0 /\ Height = 0) =>
        IF AnchorInside THEN parts = <<>>
        ELSE /\ Len(parts) = 1
             /\ \E dx, dy \in (-2)..(MaxTiles + 1) :
                   /\ parts[1][1] = <<x + dx, y + dy>>
                   /\ dx * Size <= box[1] /\ box[1] < (dx + 1) * Size
                   /\ dy * Size <= box[2] /\ box[2] < (dy + 1) * Size

C5_Witness ==
    /\ Returned /\ Width = 0 /\ Height = 0
    /\ box[1] = Size - 8 /\ box[2] = 4 /\ parts = <<>>

\* C9: called with a box wider or taller than a tile edge, get_parts reports an error
\* instead of returning a list.
C9_OversizedRejected ==
    (pcParts # "call" /\ (Width > Size \/ Height > Size)) => pcParts = "raised"

\* the tiles other than the origin that share a positive area with the box
Overlapped ==
    { <<x + dx, y + dy>> : dx, dy \in (-2)..(MaxTiles + 1) } \ {<<x, y>>}

OverlapsTile(n) ==
    LET a == Size * (n[1] - x)
        b == Size * (n[2] - y)
        l == IF box[1] > a THEN box[1] ELSE a
        r == IF box[3] < a + Size THEN box[3] ELSE a + Size
        t == IF box[2] > b THEN box[2] ELSE b
        u == IF box[4] < b + Size THEN box[4] ELSE b + Size
    IN  l < r /\ t < u

\* C10: for a box anchored inside the tile, of width and height in 1..Size, the returned
\* neighbours are exactly the other tiles the box overlaps with positive area.
C10_ExactlyOverlapped ==
    (Returned /\ AnchorInside /\ 0 < Width /\ Width <= Size /\ 0 < Height /\ Height <= Size)
        => Addresses = {n \in Overlapped : OverlapsTile(n)}

----------------------------------------------------------------------------
\* Properties of GeoPoint.zoom (SpecZoom)

Pixel == mercator_to_pixel(geo, zscale)

\* C8: zoom returns <<tileX, tileY, top, left>> with top and left in 0..Size-1,
\* tileX*Size+left = pixelX and tileY*Size+top = pixelY, and with tileX >= 0 and
\* tileY >= 0 when 0 <= pixelX, pixelY <= Size * 2^scale.
C8_TileContainment ==
    pcZoom = "returned" =>
        /\ 0 <= zoomed[3] /\ zoomed[3] < Size
        /\ 0 <= zoomed[4] /\ zoomed[4] < Size
        /\ zoomed[1] * Size + zoomed[4] = Pixel[1]
        /\ zoomed[2] * Size + zoomed[3] = Pixel[2]
        /\ (/\ 0 <= Pixel[1] /\ Pixel[1] <= Size * pow2(zscale)
            /\ 0 <= Pixel[2] /\ Pixel[2] <= Size * pow2(zscale))
           => (zoomed[1] >= 0 /\ zoomed[2] >= 0)

C8_Witness ==
    /\ pcZoom = "returned"
    /\ Pixel[1] < 0 /\ Pixel[1] % Size # 0
    /\ Pixel[2] > Size /\ zoomed[2] >= 1 /\ zoomed[3] > 0

----------------------------------------------------------------------------
\* Properties of Tile.sort (SpecTile)

\* p is the multiple of 1/10000 nearest to 1/n
NearestTo(p, n) == 2 * p * n - 2 * Unit <= n /\ 2 * Unit - 2 * p * n <= n

Smallest(s) == CHOOSE i \in DOMAIN s : \A j \in DOMAIN s : s[i].priority <= s[j].priority

\* C3 as stated: after sort on N >= 1 placemarks the priorities are non-increasing along
\* the list and the smallest is round(1/N, 4).
C3_Descending ==
    (pcTile = "sort" /\ Len(placemark_list) >= 1) =>
        /\ \A i, j \in DOMAIN placemark_list :
              i < j => placemark_list[i].priority >= placemark_list[j].priority
        /\ NearestTo(placemark_list[Smallest(placemark_list)].priority, Len(placemark_list))

\* C3 amended: after sort on N >= 1 placemarks the priorities are non-decreasing along
\* the list (the first placemark has round(1/N, 4), the smallest; the last has 1.0), and
\* the smallest is round(1/N, 4).
C3_Ascending ==
    (pcTile = "sort" /\ Len(placemark_list) >= 1) =>
        /\ \A i, j \in DOMAIN placemark_list :
              i < j => placemark_list[i].priority <= placemark_list[j].priority
        /\ NearestTo(placemark_list[1].priority, Len(placemark_list))
        /\ placemark_list[Len(placemark_list)].priority = Unit
        /\ NearestTo(placemark_list[Smallest(placemark_list)].priority, Len(placemark_list))

C3_Witness ==
    /\ pcTile = "sort" /\ Len(placemark_list) = 3
    /\ placemark_list[1].box[2] < placemark_list[3].box[2]
    /\ placemark_list[1].priority < placemark_list[2].priority

Position(s, id) == CHOOSE i \in DOMAIN s : s[i].id = id

StableSorted(old, new) ==
    /\ Len(new) = Len(old)
    /\ \A i \in DOMAIN old : \E j \in DOMAIN new :
          new[j].id = old[i].id /\ new[j].box = old[i].box
    /\ \A i, j \in DOMAIN new : i # j => new[i].id # new[j].id
    /\ \A i, j \in DOMAIN new : i < j => new[i].box[2] <= new[j].box[2]
    /\ \A i, j \in DOMAIN new :
          (i < j /\ new[i].box[2] = new[j].box[2]) =>
              /\ Position(old, new[i].id) < Position(old, new[j].id)
              /\ new[i].id < new[j].id

\* C4: sort leaves the list a permutation of what it was, ascending by box top, with
\* placemarks of equal top in the order in which they were added.
C4_StableSort == [][pcTile' = "sort" => StableSorted(placemark_list, placemark_list')]_vars

C4_Witness ==
    /\ pcTile = "sort"
    /\ \E i, j \in DOMAIN placemark_list :
          i < j /\ placemark_list[i].box[2] = placemark_list[j].box[2]
    /\ \E i, j \in DOMAIN placemark_list :
          i < j /\ placemark_list[i].id > placemark_list[j].id

----------------------------------------------------------------------------
\* Properties of HotspotsManager.generate_tiles (Spec)

Plain(p) == [p EXCEPT !.priority = Unit]
PlainSet(l) == {Plain(l[i]) : i \in DOMAIN l}

Holders(p) ==
    {<<t, i>> \in (DOMAIN tiles) \X (1..(4 * MaxObjs)) :
        i \in DOMAIN tiles[t].placemark_list /\ Plain(tiles[t].placemark_list[i]) = p}

\* C6: a tile handed to generate() at zoom z holds exactly the placemarks produced at
\* zoom z for its address (none produced later, none of another zoom), every produced
\* placemark is in exactly one tile, and no tile is empty.
C6_TileComplete ==
    /\ \A k \in DOMAIN emitted :
          /\ PlainSet(emitted[k].placemark_list)
                = {p \in produced : p.scale = emitted[k].scale /\ p.tile_num = emitted[k].tile_num}
          /\ Cardinality(PlainSet(emitted[k].placemark_list)) = Len(emitted[k].placemark_list)
          /\ \A j \in DOMAIN emitted : j # k =>
                <<emitted[j].scale, emitted[j].tile_num>> # <<emitted[k].scale, emitted[k].tile_num>>
    /\ \A t \in DOMAIN tiles :
          /\ Len(tiles[t].placemark_list) >= 1
          /\ \A i \in DOMAIN tiles[t].placemark_list :
                tiles[t].placemark_list[i].tile_num = t /\ tiles[t].placemark_list[i].scale = scale
    /\ pc = "tiles" => \A p \in produced : p.scale = scale => Cardinality(Holders(p)) = 1

C6_Witness ==
    /\ pc = "done"
    /\ \E j, k \in DOMAIN emitted : emitted[j].scale < emitted[k].scale
    /\ \E k \in DOMAIN emitted : Len(emitted[k].placemark_list) = 2
    /\ \E p, q \in produced : p.obj = q.obj /\ p.scale = q.scale /\ p.tile_num # q.tile_num

ZoomsOf(arg) == IF arg.iter THEN {z \in 0..MaxZoom : arg.lo <= z /\ z <= arg.hi} ELSE {arg.lo}

\* C7: every zoom of the range is processed once, in ascending order, and at each of them
\* every object of the input contributes a placemark to a generated tile, for a sequence
\* and for a single-pass iterator alike.
C7_EveryObjectEveryZoom ==
    pc = "done" =>
        /\ \A j, k \in DOMAIN emitted : j < k => emitted[j].scale <= emitted[k].scale
        /\ \A z \in ZoomsOf(scale_arg) : \A i \in DOMAIN iterable.objs :
              \E k \in DOMAIN emitted :
                 /\ emitted[k].scale = z
                 /\ \E n \in DOMAIN emitted[k].placemark_list :
                       emitted[k].placemark_list[n].obj = i

====
